---- MODULE Spec2Model ----
(***************************************************************************)
(* Model of the rag-frontend client: the FileUpload screen                 *)
(* (src/src/component/FileUpload.tsx) and the ChatBot screen               *)
(* (src/unnamed/part_000), together with the network requests, the         *)
(* progress interval and the completion timer they start.                  *)
(*                                                                         *)
(* Text is a sequence of chunks: typed input is one character per chunk,   *)
(* literal texts of the source are kept as one chunk.  Message ids         *)
(* (Math.random), timestamps and the dragOver highlight of the drop zone   *)
(* are not modelled.                                                       *)
(***************************************************************************)
EXTENDS Integers, Sequences, FiniteSets, TLC

VARIABLES
    file,              \* FileUpload: useState<File | null>
    uploading,         \* FileUpload: useState(false)
    progress,          \* FileUpload: useState(0)
    uploaded,          \* FileUpload: useState(false); TRUE renders ChatBot
    uploadedFileName,  \* FileUpload: useState("")
    interval,          \* the setInterval of handleUpload is running
    timers,            \* pending setTimeout(..., 600) callbacks of handleUpload
    inflight,          \* fetch requests that have not settled yet
    session,           \* number of ChatBot instances mounted so far
    messages,          \* ChatBot: useState<Message[]>
    input,             \* ChatBot: useState("")
    loading            \* ChatBot: useState(false)

vars == <<file, uploading, progress, uploaded, uploadedFileName, interval,
          timers, inflight, session, messages, input, loading>>

uploadVars == <<file, uploading, progress, uploaded, uploadedFileName,
                interval, timers>>

chatVars == <<session, messages, input, loading>>

----------------------------------------------------------------------------
(* Bounds of the model *)

MaxSends == 2         \* sends per chat session
MaxSessions == 2      \* chat sessions (uploads completed)

(* Program constants *)

ProgressCap == 90     \* the interval stops adding at 90
ProgressDone == 100   \* setProgress(100) when the request settles
MaxIncrement == 15    \* Math.random() * 15

----------------------------------------------------------------------------
(* Values *)

Null == [null |-> TRUE]

Files == { [name |-> "a.pdf", size |-> 512],
           [name |-> "b.txt", size |-> 2048] }

\* whole-number samples of Math.random() * 15, which lies in [0, 15)
Increments == {0, 11, MaxIncrement - 1}

\* texts typed into the textarea: empty, blank, plain, with blanks around,
\* with a blank inside
Strings == { <<>>, <<" ">>, <<"a">>, <<" ", "a", " ">>, <<"a", " ", "b">> }

IsSpace(c) == c = " "

RECURSIVE TrimStart(_)
TrimStart(s) ==
    IF s = <<>> THEN <<>>
    ELSE IF IsSpace(Head(s)) THEN TrimStart(Tail(s)) ELSE s

RECURSIVE TrimEnd(_)
TrimEnd(s) ==
    IF s = <<>> THEN <<>>
    ELSE IF IsSpace(s[Len(s)]) THEN TrimEnd(SubSeq(s, 1, Len(s) - 1)) ELSE s

\* String.prototype.trim
Trim(s) == TrimEnd(TrimStart(s))

Remove(q, i) == SubSeq(q, 1, i - 1) \o SubSeq(q, i + 1, Len(q))

FALLBACK == <<"Something went wrong. Please try again.">>

mode == "file_only"

NoMode == "undefined"

----------------------------------------------------------------------------
(* JSON values and the responses of the two endpoints *)

Undefined == [t |-> "undefined"]
JsonNull == [t |-> "null"]
Str(v) == [t |-> "string", v |-> v]

Nullish(x) == x.t \in {"undefined", "null"}

\* a ?? b
Coalesce(a, b) == IF Nullish(a) THEN b ELSE a

FieldValues(v) == {Undefined, JsonNull, Str(v)}

Bodies ==
    { [parse |-> "fail"], [parse |-> "null"] } \cup
    { [parse |-> "object", answer |-> a, response |-> r, message |-> m] :
        a \in FieldValues(<<"A">>), r \in FieldValues(<<"R">>),
        m \in FieldValues(<<"M">>) }

FullBody == [parse |-> "object", answer |-> Str(<<"A">>),
             response |-> Str(<<"R">>), message |-> Str(<<"M">>)]

ChatResponses ==
    { [kind |-> "neterr"] } \cup
    { [kind |-> "http", ok |-> TRUE, body |-> b] : b \in Bodies } \cup
    { [kind |-> "http", ok |-> FALSE, body |-> b] :
        b \in { [parse |-> "fail"], FullBody } }

UploadResponses ==
    { [kind |-> "neterr"],
      [kind |-> "http", ok |-> TRUE],
      [kind |-> "http", ok |-> FALSE] }

----------------------------------------------------------------------------
(* sendMessage *)

Return(v) == [throws |-> FALSE, value |-> v]
Throw(m) == [throws |-> TRUE, message |-> m]

\* data.answer ?? data.response ?? data.message ?? fallback
FirstFieldSwapped(data) ==
    Coalesce(data.response,
        Coalesce(data.answer, Coalesce(data.message, Str(FALLBACK))))

FirstField(data) ==
    Coalesce(data.answer,
        Coalesce(data.response, Coalesce(data.message, Str(FALLBACK))))

\* the try block of sendMessage
SendMessageTry(resp) ==
    IF resp.kind = "neterr" THEN Throw(<<"Failed to fetch">>)
    ELSE IF ~resp.ok THEN Throw(FALLBACK)
    ELSE IF resp.body.parse = "fail" THEN Throw(<<"Unexpected token">>)
    ELSE IF resp.body.parse = "null"
         THEN Throw(<<"Cannot read properties of null">>)
    ELSE Return(FirstField(resp.body).v)

\* the catch block of sendMessage
SendMessageRethrow(err) == [settled |-> "rejected", message |-> err.message]

SendMessageCatch(err) == [settled |-> "fulfilled", value |-> FALLBACK]

SendMessage(resp) ==
    LET r == SendMessageTry(resp) IN
    IF r.throws THEN SendMessageCatch(r)
    ELSE [settled |-> "fulfilled", value |-> r.value]

----------------------------------------------------------------------------
(* ChatBot *)

Greeting(fileName) ==
    <<"Document loaded. I'm ready to answer questions about **", fileName,
      "**.\n\nUse the toggle to switch between:\n* **File Only** - strict answers from the document\n* **AI + File** - enhanced answers using AI reasoning">>

GreetingMsg(fileName) ==
    [role |-> "assistant", content |-> Greeting(fileName), mode |-> NoMode]

UserMsgUntrimmed(prompt) ==
    [role |-> "user", content |-> input, mode |-> NoMode]

UserMsg(prompt) == [role |-> "user", content |-> prompt, mode |-> NoMode]

\* the message built after `await sendMessage(prompt)` settles
ReplyMsg(result) ==
    IF result.settled = "fulfilled"
    THEN [role |-> "assistant", content |-> result.value, mode |-> mode]
    ELSE [role |-> "error", content |-> result.message, mode |-> NoMode]

\* setMessages((prev) => [...prev, m])
AppendMsgStale(prev, m) == Append(SubSeq(prev, 1, Len(prev) - 1), m)

AppendMsg(prev, m) == Append(prev, m)

UserCount == Cardinality({ i \in 1..Len(messages) : messages[i].role = "user" })

\* if (!prompt || loading) return;
SendReturnsEarlyNoTrim == input = <<>> \/ loading

SendReturnsEarly == Trim(input) = <<>> \/ loading

\* disabled={!input.trim() || loading}
SendButtonDisabled == Trim(input) = <<>> \/ loading

\* disabled={loading}
TextareaDisabled == loading

\* a state setter acts only on the component instance it was created in
MountedAny(req) == uploaded

Mounted(req) == uploaded /\ req.session = session

ChatRequest(prompt) ==
    [kind |-> "chat", session |-> session,
     body |-> [question |-> prompt, mode |-> "rag"]]

HandleSend ==
    LET prompt == Trim(input) IN
    IF SendReturnsEarly
    THEN UNCHANGED vars
    ELSE /\ messages' = AppendMsg(messages, UserMsg(prompt))
         /\ input' = <<>>
         /\ loading' = TRUE
         /\ inflight' = Append(inflight, ChatRequest(prompt))
         /\ UNCHANGED <<uploadVars, session>>

SendClick ==
    /\ uploaded
    /\ (UserCount < MaxSends \/ loading)
    /\ ~SendButtonDisabled
    /\ HandleSend

HandleKeyDown(key, shiftKey) ==
    /\ uploaded
    /\ (UserCount < MaxSends \/ loading)
    /\ ~TextareaDisabled
    /\ IF key = "Enter" /\ ~shiftKey THEN HandleSend ELSE UNCHANGED vars

HandleInputChange(value) ==
    /\ uploaded
    /\ ~TextareaDisabled
    /\ input' = value
    /\ UNCHANGED <<uploadVars, inflight, session, messages, loading>>

\* the continuation of handleSend after the await
ChatSettle(i, resp) ==
    /\ i \in 1..Len(inflight)
    /\ inflight[i].kind = "chat"
    /\ inflight' = Remove(inflight, i)
    /\ IF Mounted(inflight[i])
       THEN /\ messages' = AppendMsg(messages, ReplyMsg(SendMessage(resp)))
            /\ loading' = FALSE
       ELSE UNCHANGED <<messages, loading>>
    /\ UNCHANGED <<uploadVars, session, input>>

----------------------------------------------------------------------------
(* FileUpload *)

UploadViewShown == ~uploaded

HandleFileChange(f) ==
    /\ UploadViewShown
    /\ ~uploading                  \* the picker opens only when !uploading
    /\ IF f # Null
       THEN file' = f /\ uploaded' = FALSE
       ELSE UNCHANGED <<file, uploaded>>
    /\ UNCHANGED <<uploading, progress, uploadedFileName, interval, timers,
                   inflight, chatVars>>

\* the drop zone takes a drop also while uploading
HandleDrop(f) ==
    /\ UploadViewShown
    /\ IF f # Null
       THEN file' = f /\ uploaded' = FALSE
       ELSE UNCHANGED <<file, uploaded>>
    /\ UNCHANGED <<uploading, progress, uploadedFileName, interval, timers,
                   inflight, chatVars>>

\* disabled={!file || uploading}
UploadButtonDisabledNoUploading == file = Null

UploadButtonDisabled == file = Null \/ uploading

HandleUpload ==
    /\ UploadViewShown
    /\ session < MaxSessions
    /\ ~UploadButtonDisabled
    /\ IF file = Null
       THEN UNCHANGED vars
       ELSE /\ uploading' = TRUE
            /\ progress' = 0
            /\ interval' = TRUE
            /\ inflight' = Append(inflight, [kind |-> "upload", file |-> file])
            /\ UNCHANGED <<file, uploaded, uploadedFileName, timers, chatVars>>

\* the setInterval callback of handleUpload
IntervalTick(inc) ==
    /\ interval
    /\ IF progress >= ProgressCap
       THEN progress' = ProgressCap /\ interval' = FALSE
       ELSE progress' = progress + inc /\ interval' = interval
    /\ UNCHANGED <<file, uploading, uploaded, uploadedFileName, timers,
                   inflight, chatVars>>

\* the try block of handleUpload after the await
UploadTryThrows(resp) == resp.kind = "neterr" \/ ~resp.ok

\* setTimeout(() => {...}, 600) of the try block; `sent` is the file of the
\* closure, `via` the block that started the timer
TimersAfterTry(f) == Append(timers, [sent |-> f, via |-> "try"])

\* setTimeout(() => {...}, 600) of the catch block
TimersAfterCatchFailed(f) == timers

TimersAfterCatch(f) == Append(timers, [sent |-> f, via |-> "catch"])

UploadSettle(i, resp) ==
    /\ i \in 1..Len(inflight)
    /\ inflight[i].kind = "upload"
    /\ inflight' = Remove(inflight, i)
    /\ interval' = FALSE
    /\ progress' = ProgressDone
    /\ timers' = IF UploadTryThrows(resp)
                 THEN TimersAfterCatch(inflight[i].file)
                 ELSE TimersAfterTry(inflight[i].file)
    /\ UNCHANGED <<file, uploading, uploaded, uploadedFileName, chatVars>>

\* file.name as the timer callback reads it
StateFileName(t) == IF file = Null THEN "" ELSE file.name

ClosureFileName(t) == t.sent.name

\* ChatBot is mounted when `uploaded` becomes true
TimerFire(i) ==
    /\ i \in 1..Len(timers)
    /\ timers' = Remove(timers, i)
    /\ uploadedFileName' = ClosureFileName(timers[i])
    /\ uploaded' = TRUE
    /\ uploading' = FALSE
    /\ IF ~uploaded
       THEN /\ session' = session + 1
            /\ messages' = <<GreetingMsg(uploadedFileName')>>
            /\ input' = <<>>
            /\ loading' = FALSE
       ELSE UNCHANGED chatVars
    /\ UNCHANGED <<file, progress, interval, inflight>>

\* ChatBot is unmounted when `uploaded` becomes false
HandleReset ==
    /\ file' = Null
    /\ uploaded' = FALSE
    /\ progress' = 0
    /\ uploadedFileName' = ""
    /\ IF uploaded
       THEN /\ messages' = <<>>
            /\ input' = <<>>
            /\ loading' = FALSE
       ELSE UNCHANGED <<messages, input, loading>>
    /\ UNCHANGED <<uploading, interval, timers, inflight, session>>

\* the "x" button of the upload card: {file && !uploading && ...}
UploadResetClick ==
    /\ UploadViewShown
    /\ file # Null
    /\ ~uploading
    /\ HandleReset

\* the "New" button of the chat header: onClick={onReset}
ChatResetClick ==
    /\ uploaded
    /\ HandleReset

----------------------------------------------------------------------------

Init ==
    /\ file = Null
    /\ uploading = FALSE
    /\ progress = 0
    /\ uploaded = FALSE
    /\ uploadedFileName = ""
    /\ interval = FALSE
    /\ timers = <<>>
    /\ inflight = <<>>
    /\ session = 0
    /\ messages = <<>>
    /\ input = <<>>
    /\ loading = FALSE

UploadSettles == \E i \in 1..Len(inflight) : \E resp \in UploadResponses :
                     UploadSettle(i, resp)

ChatSettles == \E i \in 1..Len(inflight) : \E resp \in ChatResponses :
                   ChatSettle(i, resp)

TimerFires == \E i \in 1..Len(timers) : TimerFire(i)

Next ==
    \/ \E f \in Files \cup {Null} : HandleFileChange(f)
    \/ \E f \in Files \cup {Null} : HandleDrop(f)
    \/ HandleUpload
    \/ \E inc \in Increments : IntervalTick(inc)
    \/ UploadSettles
    \/ TimerFires
    \/ UploadResetClick
    \/ ChatResetClick
    \/ \E value \in Strings : HandleInputChange(value)
    \/ SendClick
    \/ \E key \in {"Enter", "a"} : \E shiftKey \in BOOLEAN :
           HandleKeyDown(key, shiftKey)
    \/ ChatSettles

Spec == Init /\ [][Next]_vars

\* every fetch settles and every timer fires
FairSpec == Spec /\ WF_vars(UploadSettles) /\ WF_vars(TimerFires)
                 /\ WF_vars(ChatSettles)

----------------------------------------------------------------------------
(* Steps, as seen from the state before and after *)

Last(q) == q[Len(q)]

IsPrefix(p, q) == Len(p) <= Len(q) /\ SubSeq(q, 1, Len(p)) = p

\* a fetch to /api/chat starts
ChatStarted ==
    /\ Len(inflight') = Len(inflight) + 1
    /\ Last(inflight').kind = "chat"

\* the i-th outstanding request is a chat request and settles
ChatSettled(i) ==
    /\ i \in 1..Len(inflight)
    /\ inflight[i].kind = "chat"
    /\ inflight' = Remove(inflight, i)

\* the i-th outstanding request is an upload request and settles
UploadSettled(i) ==
    /\ i \in 1..Len(inflight)
    /\ inflight[i].kind = "upload"
    /\ inflight' = Remove(inflight, i)

TimerFired(i) ==
    /\ i \in 1..Len(timers)
    /\ timers' = Remove(timers, i)

\* the request was sent by the chat session that is on screen
OfLiveSession(req) == uploaded /\ req.session = session

OneAppended ==
    /\ Len(messages') = Len(messages) + 1
    /\ SubSeq(messages', 1, Len(messages)) = messages

ReplyAppended(req) ==
    /\ OneAppended
    /\ Last(messages').role \in {"assistant", "error"}
    /\ Last(messages).role = "user"
    /\ Last(messages).content = req.body.question

UserAppended ==
    /\ OneAppended
    /\ Last(messages').role = "user"
    /\ Last(messages').content = Trim(input)
    /\ Trim(input) # <<>>

----------------------------------------------------------------------------
(* C1 *)

\* C1 as stated: every send appends the user message with the trimmed input
\* at once, and every settled chat request appends exactly one assistant or
\* error message after it.
C1_AsStated ==
    [][ /\ ChatStarted => UserAppended
        /\ \A i \in 1..Len(inflight) :
               ChatSettled(i) => ReplyAppended(inflight[i]) ]_vars

\* C1 (amended): every send appends the user message with the trimmed input
\* at once; when its request settles while the chat session that sent it is
\* still on screen exactly one assistant or error message is appended right
\* after that user message; when the session was reset before the request
\* settled, nothing is appended.
C1_SendThenOneReply ==
    [][ /\ ChatStarted => UserAppended
        /\ \A i \in 1..Len(inflight) :
               ChatSettled(i) =>
                   IF OfLiveSession(inflight[i])
                   THEN ReplyAppended(inflight[i])
                   ELSE messages' = messages ]_vars

C1_Witness ==
    /\ uploaded
    /\ ~loading
    /\ Len(messages) = 3
    /\ messages[2] =
           [role |-> "user", content |-> <<"a", " ", "b">>, mode |-> NoMode]
    /\ messages[3].role = "assistant"
    /\ inflight = <<>>

----------------------------------------------------------------------------
(* C2 *)

\* C2: from a chat state where loading is true or the trimmed input is
\* empty, no step starts a chat request or appends a user message.
C2_SendDisabled ==
    [][ (uploaded /\ (loading \/ Trim(input) = <<>>)) =>
            /\ Len(inflight') <= Len(inflight)
            /\ ~(Len(messages') > Len(messages)
                 /\ Last(messages').role = "user") ]_vars

C2_Witness ==
    /\ uploaded
    /\ ~loading
    /\ input = <<" ">>
    /\ Len(messages) = 1

----------------------------------------------------------------------------------------------------------------------------------------
(* C3 *)

Present(x) == x.t = "string"

FirstPresent(body) ==
    IF Present(body.answer) THEN body.answer.v
    ELSE IF Present(body.response) THEN body.response.v
    ELSE body.message.v

HasField(body) ==
    /\ body.parse = "object"
    /\ (Present(body.answer) \/ Present(body.response)
            \/ Present(body.message))

Is2xx(resp) == resp.kind = "http" /\ resp.ok

\* the i-th outstanding request is of the session on screen and settles
LiveChatSettled(i) == ChatSettled(i) /\ OfLiveSession(inflight[i])

\* C3: when a chat request settles with a 2xx response that carries one of
\* answer, response, message, the content of the reply bubble is the first of
\* them that is present, in that order.
C3_FirstPresentField ==
    [][ \A i \in 1..Len(inflight) : LiveChatSettled(i) =>
            \A resp \in ChatResponses :
                (ChatSettle(i, resp) /\ Is2xx(resp) /\ HasField(resp.body)) =>
                    /\ ReplyAppended(inflight[i])
                    /\ Last(messages').content = FirstPresent(resp.body) ]_vars

C3_Witness ==
    /\ uploaded
    /\ ~loading
    /\ Len(messages) = 3
    /\ Last(messages) =
           [role |-> "assistant", content |-> <<"A">>, mode |-> mode]

----------------------------------------------------------------------------
(* C4 and C9 *)

ChatFailed(resp) ==
    \/ resp.kind = "neterr"
    \/ resp.kind = "http" /\ ~resp.ok
    \/ Is2xx(resp) /\ ~HasField(resp.body)

\* C4: when a chat request settles with a response without answer, response
\* and message, with a non-2xx status, with an unparseable body, or with a
\* network failure, the bubble of that send holds the fixed fallback text,
\* and sendMessage fulfils.
C4_FallbackText ==
    [][ \A i \in 1..Len(inflight) : LiveChatSettled(i) =>
            \A resp \in ChatResponses :
                (ChatSettle(i, resp) /\ ChatFailed(resp)) =>
                    /\ ReplyAppended(inflight[i])
                    /\ Last(messages').content = FALLBACK
                    /\ SendMessage(resp).settled = "fulfilled" ]_vars

C4_Witness ==
    /\ uploaded
    /\ ~loading
    /\ Len(messages) = 3
    /\ Last(messages).role # "user"
    /\ Last(messages).content = FALLBACK

\* C9 as stated: when a chat request fails, the message appended for that
\* send has role error.
C9_ErrorBubble ==
    [][ \A i \in 1..Len(inflight) : LiveChatSettled(i) =>
            \A resp \in ChatResponses :
                (ChatSettle(i, resp) /\ ChatFailed(resp)) =>
                    /\ ReplyAppended(inflight[i])
                    /\ Last(messages').role = "error" ]_vars

----------------------------------------------------------------------------
(* C5 *)

UploadFailed(resp) == resp.kind = "neterr" \/ (resp.kind = "http" /\ ~resp.ok)

\* C5: when the upload request settles with a non-2xx status or a network
\* failure, progress becomes 100 and the completion timer is started, as for
\* a 2xx response; when the timer fires, uploaded becomes true and uploading
\* false.
C5_FailureReportedAsSuccess ==
    [][ /\ \A i \in 1..Len(inflight) : UploadSettled(i) =>
               \A resp \in UploadResponses :
                   (UploadSettle(i, resp) /\ UploadFailed(resp)) =>
                   /\ progress' = ProgressDone
                   /\ Len(timers') = Len(timers) + 1
                   /\ Last(timers').sent = inflight[i].file
                   /\ uploading' /\ ~uploaded'
        /\ \A i \in 1..Len(timers) :
               TimerFired(i) => uploaded' /\ ~uploading' ]_vars

C5_Witness ==
    /\ uploading
    /\ ~uploaded
    /\ progress = ProgressDone
    /\ inflight = <<>>
    /\ Len(timers) = 1
    /\ timers[1].via = "catch"

----------------
(* C6 *)

\* C6: every upload that was started leads to the chat view, and the file
\* name shown there is the name of the file sent in the upload request, also
\* when another file was dropped meanwhile.
C6_ChatViewShowsSentFile ==
    /\ uploading ~> uploaded
    /\ [][ \A i \in 1..Len(timers) :
               TimerFired(i) =>
                   /\ uploaded'
                   /\ uploadedFileName' = timers[i].sent.name
                   /\ messages' = <<GreetingMsg(timers[i].sent.name)>> ]_vars

C6_Witness ==
    /\ uploaded
    /\ uploadedFileName = "a.pdf"
    /\ file # Null
    /\ file.name = "b.txt"

----------------------------------------------------------------------------
(* C7 *)

\* C7: while one chat session stays on screen, every step leaves the
\* transcript a prefix of the new transcript.
C7_AppendOnly ==
    [][ (uploaded /\ uploaded' /\ session' = session) =>
            IsPrefix(messages, messages') ]_vars

C7_Witness ==
    /\ uploaded
    /\ Len(messages) = 3
    /\ messages[2].role = "user"
    /\ messages[3].role = "assistant"

----------------------------------------------------------------------------
(* C8 *)

Outstanding(kind) ==
    Cardinality({ i \in 1..Len(inflight) : inflight[i].kind = kind })

OutstandingOf(s) ==
    Cardinality({ i \in 1..Len(inflight) :
                      inflight[i].kind = "chat" /\ inflight[i].session = s })

\* C8 as stated: at no time is more than one network request outstanding.
C8_AsStated == Len(inflight) <= 1

OnePerScreen ==
    /\ Outstanding("upload") <= 1
    /\ \A s \in 0..MaxSessions + 1 : OutstandingOf(s) <= 1

\* C8 (amended): every step starts at most one request; at most one upload
\* request and, per chat session, at most one chat request are outstanding.
\* Chat requests of sessions that were reset stay outstanding next to a new
\* upload or a new session's chat request.
C8_OneRequestPerAction ==
    /\ OnePerScreen
    /\ [][ Len(inflight') <= Len(inflight) + 1 /\ OnePerScreen' ]_vars

C8_Witness ==
    /\ Len(inflight) = 2
    /\ inflight[1].kind = "chat"
    /\ inflight[2].kind = "upload"

----------------------------------------------------------------------------
(* C10 *)

MountStep == ~uploaded /\ uploaded'

UnmountStep == uploaded /\ ~uploaded'

\* C10: the transcript changes only by a mount, which sets it to the
\* greeting alone, by a reset, which empties it, by a send of the session on
\* screen and by the reply to a request of the session on screen; a request
\* of an earlier session that settles changes nothing of the chat screen.
C10_ResetDiscards ==
    [][ /\ messages' # messages =>
               \/ MountStep /\ session' = session + 1
                    /\ messages' = <<GreetingMsg(uploadedFileName')>>
               \/ UnmountStep /\ messages' = <<>>
               \/ ChatStarted /\ UserAppended
                    /\ Last(inflight').session = session /\ uploaded
               \/ \E i \in 1..Len(inflight) :
                      /\ ChatSettled(i)
                      /\ OfLiveSession(inflight[i])
                      /\ ReplyAppended(inflight[i])
        /\ \A i \in 1..Len(inflight) :
               (ChatSettled(i) /\ ~OfLiveSession(inflight[i])) =>
                   UNCHANGED <<messages, input, loading>> ]_vars

C10_Witness ==
    /\ uploaded
    /\ session = 2
    /\ messages = <<GreetingMsg(uploadedFileName)>>
    /\ Len(inflight) = 1
    /\ inflight[1].kind = "chat"
    /\ inflight[1].session = 1

----------------------------------------------------------------------------
(* C11 *)

\* C11 as stated: in every reachable state progress is at least 0 and at
\* most 100.
C11_ProgressInRange == progress >= 0 /\ progress <= ProgressDone

----------------------------------------------------------------------------
(* C12 *)

\* C12 as stated: the mode in the body of every chat request is the mode
\* state of ChatBot, which the header shows and which is attached to the
\* assistant message made from the reply.
C12_ModeSentIsModeShown ==
    /\ \A i \in 1..Len(inflight) :
           inflight[i].kind = "chat" => inflight[i].body.mode = mode
    /\ \A k \in 2..Len(messages) :
           messages[k].role = "assistant" => messages[k].mode = mode

----------------------------------------------------------------------------
(* C13 *)

IsReply(m) == m.role \in {"assistant", "error"}

RoleCount(roles) ==
    Cardinality({ k \in 2..Len(messages) : messages[k].role \in roles })

\* the outstanding requests of the session on screen
LiveRequests ==
    { i \in 1..Len(inflight) :
          inflight[i].kind = "chat" /\ OfLiveSession(inflight[i]) }

\* C13: in every state of a chat session the transcript is the greeting
\* followed by user and reply messages in turn, starting with a user message;
\* there is one user message more than replies while loading and as many
\* otherwise; while loading the last message is the user message of the one
\* outstanding request of the session, so that its reply will follow it.
C13_Alternation ==
    uploaded =>
        /\ messages # <<>>
        /\ messages[1] = GreetingMsg(uploadedFileName)
        /\ \A k \in 2..Len(messages) :
               IF k % 2 = 0 THEN messages[k].role = "user"
               ELSE IsReply(messages[k])
        /\ RoleCount({"user"}) - RoleCount({"assistant", "error"})
               = IF loading THEN 1 ELSE 0
        /\ Cardinality(LiveRequests) = IF loading THEN 1 ELSE 0
        /\ \A i \in LiveRequests :
               /\ Last(messages).role = "user"
               /\ Last(messages).content = inflight[i].body.question

C13_Witness ==
    /\ uploaded
    /\ session = 2
    /\ loading
    /\ Len(messages) = 4
    /\ messages[3].role = "assistant"
    /\ Len(inflight) = 2
    /\ inflight[1].session = 1

----------------------------------------------------------------------------
(* C14 *)

\* C14 as stated: while uploading is true no step changes or clears the
\* selected file.
C14_FileFixedWhileUploading == [][ uploading => file' = file ]_vars

====
